---- MODULE Spec2Model ----
(***************************************************************************)
(* Translator.py: a constant-definition language is lexed, parsed,         *)
(* evaluated statement by statement and serialized to key = value lines.   *)
(* Python strings are TLA+ strings; a Python position p (0-based) is the   *)
(* character SubSeq(s, p + 1, p + 1).                                      *)
(***************************************************************************)
EXTENDS Integers, Sequences, FiniteSets, TLC

VARIABLES pc, text, tokens, stmts, consts, idx, toml_text, exc, out

vars == <<pc, text, tokens, stmts, consts, idx, toml_text, exc, out>>

(***************************************************************************)
(* Bounds of the model.                                                    *)
(***************************************************************************)
\* number of text fragments concatenated into one input text
MaxChunks == 3
\* length of the free-form texts (any characters of LexAlphabet)
MaxTextLen == 4
\* number of tokens of the expression under evaluation in SpecExpr
MaxExprTokens == 6

(***************************************************************************)
(* Strings.                                                                *)
(***************************************************************************)
CharAt(s, p) == SubSeq(s, p + 1, p + 1)

Digits == {"0", "1", "2", "3", "4", "5", "6", "7", "8", "9"}

Upper == {"A", "B", "C", "D", "E", "F", "G", "H", "I", "J", "K", "L", "M",
          "N", "O", "P", "Q", "R", "S", "T", "U", "V", "W", "X", "Y", "Z"}

\* as InClass, with a dot that matches the line break too
InClassDotAll(c, cls) ==
    CASE cls = "digit" -> c \in Digits
      [] cls = "upper" -> c \in Upper
      [] cls = "space" -> c \in {" ", "\t", "\n"}
      [] cls = "dot"   -> TRUE
      [] OTHER         -> FALSE

\* the character classes of the patterns: \d, [A-Z], [ \t\n], . and none
InClass(c, cls) ==
    CASE cls = "digit" -> c \in Digits
      [] cls = "upper" -> c \in Upper
      [] cls = "space" -> c \in {" ", "\t", "\n"}
      [] cls = "dot"   -> c # "\n"
      [] OTHER         -> FALSE

\* length of the longest run of characters of class cls starting at position p
RECURSIVE RunLen(_, _, _)
RunLen(s, p, cls) ==
    IF p < Len(s) /\ InClass(CharAt(s, p), cls)
    THEN 1 + RunLen(s, p + 1, cls)
    ELSE 0

(***************************************************************************)
(* Lexer.  A pattern is a literal prefix followed by a greedy run of a     *)
(* character class of at least min characters.                             *)
(***************************************************************************)
Re(lit, cls, min) == [lit |-> lit, cls |-> cls, min |-> min]

TOKEN_REGEX ==
    << [type |-> "COMMENT",   re |-> Re("*", "dot", 0)],
       [type |-> "NUMBER",    re |-> Re("", "digit", 1)],
       [type |-> "SET",       re |-> Re("set", "none", 0)],
       [type |-> "LIST",      re |-> Re("list", "none", 0)],
       [type |-> "POW",       re |-> Re("pow", "none", 0)],
       [type |-> "ABS",       re |-> Re("abs", "none", 0)],
       [type |-> "IDENT",     re |-> Re("", "upper", 1)],
       [type |-> "CARET",     re |-> Re("^", "none", 0)],
       [type |-> "LBRACE",    re |-> Re("{", "none", 0)],
       [type |-> "RBRACE",    re |-> Re("}", "none", 0)],
       [type |-> "LPAREN",    re |-> Re("(", "none", 0)],
       [type |-> "RPAREN",    re |-> Re(")", "none", 0)],
       [type |-> "PLUS",      re |-> Re("+", "none", 0)],
       [type |-> "MINUS",     re |-> Re("-", "none", 0)],
       [type |-> "COMMA",     re |-> Re(",", "none", 0)],
       [type |-> "EQUAL",     re |-> Re("=", "none", 0)],
       [type |-> "SEMICOLON", re |-> Re(";", "none", 0)],
       [type |-> "WS",        re |-> Re("", "space", 1)] >>

\* regex.match(text, pos): the end of the match, or -1 for None
ReMatch(re, s, p) ==
    IF p + Len(re.lit) <= Len(s) /\ SubSeq(s, p + 1, p + Len(re.lit)) = re.lit
    THEN LET n == RunLen(s, p + Len(re.lit), re.cls)
         IN  IF n < re.min THEN -1 ELSE p + Len(re.lit) + n
    ELSE -1

\* the for loop with its break: the first pattern, from the k-th on, that matches
\* at p, with the end of its match; NoMatch if none does (match is None)
NoMatch == [type |-> "", end |-> -1]

RECURSIVE MatchFrom(_, _, _)
MatchFrom(s, p, k) ==
    IF k > Len(TOKEN_REGEX) THEN NoMatch
    ELSE LET e == ReMatch(TOKEN_REGEX[k].re, s, p)
         IN  IF e >= 0 THEN [type |-> TOKEN_REGEX[k].type, end |-> e]
             ELSE MatchFrom(s, p, k + 1)

Token(type, value) == [type |-> type, value |-> value]

NoExc == [type |-> "", msg |-> ""]

\* raise Exception(msg) and the built-in exceptions the interpreter raises
Raise(type, msg) == [type |-> type, msg |-> msg]

(***************************************************************************)
(* The outcome of a call: the value returned (with the parser's cursor     *)
(* self.pos after the call), or the exception that left it.  Bind(r, K)    *)
(* continues with K after a call that returned and passes the exception    *)
(* of one that raised up to the caller.                                    *)
(***************************************************************************)
Ok(v, p) == [ok |-> TRUE, val |-> v, pos |-> p, exc |-> NoExc]

Fail(e) == [ok |-> FALSE, val |-> <<>>, pos |-> 0, exc |-> e]

Bind(r, K(_)) == IF r.ok THEN K(r) ELSE r

\* the rest of one turn of the while loop of lex at position p, match m found:
\* the tokens and the position after the match, or the LexError
LexAt(s, p, toks, m) ==
    IF m = NoMatch
    THEN Fail(Raise("Exception",
             "LexError: Unexpected character '" \o CharAt(s, p)
             \o "' at position " \o ToString(p)))
    ELSE Ok(IF m.type \notin {"WS", "COMMENT"}
            THEN Append(toks, Token(m.type, SubSeq(s, p + 1, m.end)))
            ELSE toks,
            m.end)

RECURSIVE LexLoop(_, _, _)
LexLoop(s, p, toks) ==
    IF p >= Len(s) THEN Ok(toks, p)
    ELSE Bind(LexAt(s, p, toks, MatchFrom(s, p, 1)), LAMBDA r : LexLoop(s, r.pos, r.val))

lex(s) == LexLoop(s, 0, <<>>)

(***************************************************************************)
(* Parser.  An AST node, a Python tuple (kind, ...), is a record: n holds  *)
(* an integer payload, name an identifier, kids the sub-nodes.  The        *)
(* parser's cursor self.pos is threaded through as p.                      *)
(***************************************************************************)
Node(kind, n, name, kids) == [kind |-> kind, n |-> n, name |-> name, kids |-> kids]

\* None, as returned by peek at the end of the tokens
NoneTok == Token("", "")

\* tok.type evaluated with tok = None
NoneTypeError == Raise("AttributeError", "'NoneType' object has no attribute 'type'")

peek(toks, p) == IF p < Len(toks) THEN toks[p + 1] ELSE NoneTok

eat(toks, p, type_) ==
    IF peek(toks, p) = NoneTok \/ peek(toks, p).type # type_
    THEN Fail(Raise("Exception",
             "SyntaxError: Expected " \o type_ \o ", got "
             \o (IF peek(toks, p) = NoneTok THEN "EOF" ELSE peek(toks, p).type)))
    ELSE Ok(peek(toks, p), p + 1)

DigitVal(c) == CHOOSE d \in 0..9 : ToString(d) = c

\* int(value) of a NUMBER token: a non-empty string of digits
RECURSIVE IntOfDigits(_, _)
IntOfDigits(s, acc) ==
    IF s = "" THEN acc ELSE IntOfDigits(Tail(s), 10 * acc + DigitVal(Head(s)))

int(s) == IntOfDigits(s, 0)

RECURSIVE parse_value(_, _), parse_list(_, _), ListItems(_, _, _),
          parse_const_expr(_, _), parse_expr(_, _), ExprLoop(_, _, _),
          parse_term(_, _)

parse_value(toks, p) ==
    IF peek(toks, p) = NoneTok THEN Fail(NoneTypeError)
    ELSE IF peek(toks, p).type = "NUMBER"
    THEN Bind(eat(toks, p, "NUMBER"),
              LAMBDA t : Ok(Node("number", int(t.val.value), "", <<>>), t.pos))
    ELSE IF peek(toks, p).type = "LPAREN" THEN parse_list(toks, p)
    ELSE IF peek(toks, p).type = "CARET" THEN parse_const_expr(toks, p)
    ELSE Fail(Raise("Exception", "SyntaxError: Unexpected token " \o peek(toks, p).type))

\* the while loop of parse_list
ListItems(toks, p, items) ==
    IF peek(toks, p) # NoneTok /\ peek(toks, p).type # "RPAREN"
    THEN Bind(parse_value(toks, p),
              LAMBDA v : ListItems(toks, v.pos, Append(items, v.val)))
    ELSE Ok(items, p)

parse_list(toks, p) ==
    Bind(eat(toks, p, "LPAREN"), LAMBDA a :
    Bind(eat(toks, a.pos, "LIST"), LAMBDA b :
    Bind(ListItems(toks, b.pos, <<>>), LAMBDA items :
    Bind(eat(toks, items.pos, "RPAREN"), LAMBDA r :
    Ok(Node("list", 0, "", items.val), r.pos)))))

parse_const_expr(toks, p) ==
    Bind(eat(toks, p, "CARET"), LAMBDA a :
    Bind(eat(toks, a.pos, "LBRACE"), LAMBDA b :
    Bind(parse_expr(toks, b.pos), LAMBDA expr :
    Bind(eat(toks, expr.pos, "RBRACE"), LAMBDA r :
    Ok(Node("const", 0, "", <<expr.val>>), r.pos)))))

\* as ExprLoop, with the rest of the expression as the right operand
ExprLoopRight(toks, p, node) ==
    IF peek(toks, p) # NoneTok /\ peek(toks, p).type \in {"PLUS", "MINUS"}
    THEN Bind(eat(toks, p, peek(toks, p).type), LAMBDA op :
         Bind(parse_expr(toks, op.pos), LAMBDA right :
         Ok(Node(op.val.type, 0, "", <<node, right.val>>), right.pos)))
    ELSE Ok(node, p)

\* the while loop of parse_expr: node = (op, node, right)
ExprLoop(toks, p, node) ==
    IF peek(toks, p) # NoneTok /\ peek(toks, p).type \in {"PLUS", "MINUS"}
    THEN Bind(eat(toks, p, peek(toks, p).type), LAMBDA op :
         Bind(parse_term(toks, op.pos), LAMBDA right :
         ExprLoop(toks, right.pos, Node(op.val.type, 0, "", <<node, right.val>>))))
    ELSE Ok(node, p)

parse_expr(toks, p) ==
    Bind(parse_term(toks, p), LAMBDA node : ExprLoop(toks, node.pos, node.val))

parse_term(toks, p) ==
    IF peek(toks, p) = NoneTok THEN Fail(NoneTypeError)
    ELSE IF peek(toks, p).type = "MINUS"
    THEN Bind(eat(toks, p, "MINUS"), LAMBDA m :
         Bind(parse_term(toks, m.pos), LAMBDA term :
         Ok(Node("MINUS", 0, "", <<Node("num", 0, "", <<>>), term.val>>), term.pos)))
    ELSE IF peek(toks, p).type = "NUMBER"
    THEN Bind(eat(toks, p, "NUMBER"),
              LAMBDA t : Ok(Node("num", int(t.val.value), "", <<>>), t.pos))
    ELSE IF peek(toks, p).type = "IDENT"
    THEN Bind(eat(toks, p, "IDENT"),
              LAMBDA t : Ok(Node("var", 0, peek(toks, p).value, <<>>), t.pos))
    ELSE IF peek(toks, p).type = "POW"
    THEN Bind(eat(toks, p, "POW"), LAMBDA w :
         Bind(eat(toks, w.pos, "LPAREN"), LAMBDA l :
         Bind(parse_expr(toks, l.pos), LAMBDA a :
         Bind(eat(toks, a.pos, "COMMA"), LAMBDA c :
         Bind(parse_expr(toks, c.pos), LAMBDA b :
         Bind(eat(toks, b.pos, "RPAREN"), LAMBDA r :
         Ok(Node("pow", 0, "", <<a.val, b.val>>), r.pos)))))))
    ELSE IF peek(toks, p).type = "ABS"
    THEN Bind(eat(toks, p, "ABS"), LAMBDA w :
         Bind(eat(toks, w.pos, "LPAREN"), LAMBDA l :
         Bind(parse_expr(toks, l.pos), LAMBDA a :
         Bind(eat(toks, a.pos, "RPAREN"), LAMBDA r :
         Ok(Node("abs", 0, "", <<a.val>>), r.pos)))))
    ELSE Fail(Raise("Exception", "SyntaxError: Unexpected token " \o peek(toks, p).type))

parse_stmt(toks, p) ==
    Bind(eat(toks, p, "SET"), LAMBDA s :
    Bind(eat(toks, s.pos, "IDENT"), LAMBDA name :
    Bind(eat(toks, name.pos, "EQUAL"), LAMBDA e :
    Bind(parse_value(toks, e.pos), LAMBDA val :
    Bind(eat(toks, val.pos, "SEMICOLON"), LAMBDA r :
    Ok(Node("set", 0, name.val.value, <<val.val>>), r.pos))))))

\* the while loop of parse
RECURSIVE ParseLoop(_, _, _)
ParseLoop(toks, p, sts) ==
    IF peek(toks, p) # NoneTok
    THEN Bind(parse_stmt(toks, p), LAMBDA st : ParseLoop(toks, st.pos, Append(sts, st.val)))
    ELSE Ok(sts, p)

\* Parser(tokens).parse()
parse(toks) == ParseLoop(toks, 0, <<>>)

(***************************************************************************)
(* Values.  A Python int is [t = "int", n]; a list is [t = "list", items]; *)
(* a float, which ** yields for a negative exponent, is the rational n / d *)
(* in lowest terms with d > 0 (exact for the dyadic values the inputs      *)
(* reach).  d = 0 marks a float or complex whose magnitude is irrational   *)
(* and is not modelled (a non-integral exponent).                          *)
(***************************************************************************)
IntV(n) == [t |-> "int", n |-> n, d |-> 1, items |-> <<>>]

ListV(items) == [t |-> "list", n |-> 0, d |-> 1, items |-> items]

Abs(n) == IF n < 0 THEN -n ELSE n

RECURSIVE GCD(_, _)
GCD(a, b) == IF b = 0 THEN a ELSE GCD(b, a % b)

FloatV(n, d) ==
    LET g == GCD(Abs(n), Abs(d))
        sg == IF d < 0 THEN -1 ELSE 1
    IN  [t |-> "float", n |-> sg * (n \div g), d |-> sg * (d \div g), items |-> <<>>]

Irrational(t) == [t |-> t, n |-> 0, d |-> 0, items |-> <<>>]

\* a ** b for integers a and b >= 0
RECURSIVE IPow(_, _)
IPow(a, b) == IF b = 0 THEN 1 ELSE a * IPow(a, b - 1)

\* a value returned by the evaluator
Val(v) == Ok(v, 0)

Operands(op, a, b) ==
    "unsupported operand type(s) for " \o op \o ": '" \o a.t \o "' and '" \o b.t \o "'"

\* a + b
PyAdd(a, b) ==
    IF a.t = "list"
    THEN IF b.t = "list" THEN Val(ListV(a.items \o b.items))
         ELSE Fail(Raise("TypeError",
                  "can only concatenate list (not \"" \o b.t \o "\") to list"))
    ELSE IF b.t = "list" THEN Fail(Raise("TypeError", Operands("+", a, b)))
    ELSE IF a.t = "int" /\ b.t = "int" THEN Val(IntV(a.n + b.n))
    ELSE IF a.d = 0 \/ b.d = 0
    THEN Val(Irrational(IF "complex" \in {a.t, b.t} THEN "complex" ELSE "float"))
    ELSE Val(FloatV(a.n * b.d + b.n * a.d, a.d * b.d))

\* a - b
PySub(a, b) ==
    IF a.t = "list" \/ b.t = "list" THEN Fail(Raise("TypeError", Operands("-", a, b)))
    ELSE IF a.t = "int" /\ b.t = "int" THEN Val(IntV(a.n - b.n))
    ELSE IF a.d = 0 \/ b.d = 0
    THEN Val(Irrational(IF "complex" \in {a.t, b.t} THEN "complex" ELSE "float"))
    ELSE Val(FloatV(a.n * b.d - b.n * a.d, a.d * b.d))

\* a ** b
PyPow(a, b) ==
    IF a.t = "list" \/ b.t = "list"
    THEN Fail(Raise("TypeError", Operands("** or pow()", a, b)))
    ELSE IF a.d = 0 \/ b.d = 0
    THEN Val(Irrational(IF "complex" \in {a.t, b.t} THEN "complex" ELSE "float"))
    ELSE IF b.d = 1
    THEN IF b.n >= 0
         THEN IF a.t = "int" /\ b.t = "int" THEN Val(IntV(IPow(a.n, b.n)))
              ELSE Val(FloatV(IPow(a.n, b.n), IPow(a.d, b.n)))
         ELSE IF a.n = 0
              THEN Fail(Raise("ZeroDivisionError",
                       "0.0 cannot be raised to a negative power"))
              ELSE Val(FloatV(IPow(a.d, -b.n), IPow(a.n, -b.n)))
    ELSE IF a.n = 0
    THEN IF b.n > 0 THEN Val(FloatV(0, 1))
         ELSE Fail(Raise("ZeroDivisionError",
                  "0.0 cannot be raised to a negative power"))
    ELSE IF a.n = a.d THEN Val(FloatV(1, 1))
    ELSE Val(Irrational(IF a.n < 0 THEN "complex" ELSE "float"))

\* abs(a)
PyAbs(a) ==
    IF a.t = "list"
    THEN Fail(Raise("TypeError", "bad operand type for abs(): 'list'"))
    ELSE IF a.d = 0 THEN Val(Irrational("float"))
    ELSE IF a.t = "int" THEN Val(IntV(Abs(a.n)))
    ELSE Val(FloatV(Abs(a.n), a.d))

(***************************************************************************)
(* The constant table: a Python dict, which keeps its keys in insertion    *)
(* order, as a sequence of entries.                                        *)
(***************************************************************************)
DictKeys(d) == {d[j].k : j \in 1..Len(d)}

\* name in consts
DictHas(d, k) == k \in DictKeys(d)

\* consts[name]
DictGet(d, k) == d[CHOOSE j \in 1..Len(d) : d[j].k = k].v

\* as DictSet, with an overwritten key moved behind the other keys
DictSetLast(d, k, v) ==
    LET Other(e) == e.k # k
    IN  Append(SelectSeq(d, Other), [k |-> k, v |-> v])

\* consts[name] = v: an existing key keeps its place
DictSet(d, k, v) ==
    IF DictHas(d, k)
    THEN [j \in 1..Len(d) |-> IF d[j].k = k THEN [k |-> k, v |-> v] ELSE d[j]]
    ELSE Append(d, [k |-> k, v |-> v])

(***************************************************************************)
(* Evaluator.                                                              *)
(***************************************************************************)
RECURSIVE eval_expr(_, _)
eval_expr(node, cs) ==
    IF node.kind = "num" THEN Val(IntV(node.n))
    ELSE IF node.kind = "var"
    THEN IF ~DictHas(cs, node.name)
         THEN Fail(Raise("Exception", "SemanticError: Unknown constant " \o node.name))
         ELSE Val(DictGet(cs, node.name))
    ELSE IF node.kind = "PLUS"
    THEN Bind(eval_expr(node.kids[1], cs), LAMBDA l :
         Bind(eval_expr(node.kids[2], cs), LAMBDA r : PyAdd(l.val, r.val)))
    ELSE IF node.kind = "MINUS"
    THEN Bind(eval_expr(node.kids[1], cs), LAMBDA l :
         Bind(eval_expr(node.kids[2], cs), LAMBDA r : PySub(l.val, r.val)))
    ELSE IF node.kind = "pow"
    THEN Bind(eval_expr(node.kids[1], cs), LAMBDA l :
         Bind(eval_expr(node.kids[2], cs), LAMBDA r : PyPow(l.val, r.val)))
    ELSE IF node.kind = "abs"
    THEN Bind(eval_expr(node.kids[1], cs), LAMBDA a : PyAbs(a.val))
    ELSE Fail(Raise("Exception", "Unexpected expr node " \o node.kind))

RECURSIVE eval_value(_, _), EvalItems(_, _, _)

\* the list comprehension of eval_value, left to right
EvalItems(items, cs, acc) ==
    IF items = <<>> THEN Val(ListV(acc))
    ELSE Bind(eval_value(Head(items), cs),
              LAMBDA x : EvalItems(Tail(items), cs, Append(acc, x.val)))

eval_value(v, cs) ==
    IF v.kind = "number" THEN Val(IntV(v.n))
    ELSE IF v.kind = "list" THEN EvalItems(v.kids, cs, <<>>)
    ELSE IF v.kind = "const" THEN eval_expr(v.kids[1], cs)
    ELSE Fail(Raise("Exception", "Invalid value type"))

(***************************************************************************)
(* TOML writer.                                                            *)
(***************************************************************************)
UpperStr == "ABCDEFGHIJKLMNOPQRSTUVWXYZ"

LowerStr == "abcdefghijklmnopqrstuvwxyz"

LowerChar(c) ==
    IF c \in Upper
    THEN CharAt(LowerStr, CHOOSE j \in 0..(Len(UpperStr) - 1) : CharAt(UpperStr, j) = c)
    ELSE c

\* k.lower()
RECURSIVE lower(_)
lower(s) == IF s = "" THEN "" ELSE LowerChar(Head(s)) \o lower(Tail(s))

\* the digits of r / d after the point, r < d, at most k of them
RECURSIVE FracDigits(_, _, _)
FracDigits(r, d, k) ==
    IF r = 0 \/ k = 0 THEN ""
    ELSE ToString((10 * r) \div d) \o FracDigits((10 * r) % d, d, k - 1)

\* repr of a float in [1e-4, 1e16) with a terminating expansion: 0.5, 1.0, -2.0
FloatRepr(n, d) ==
    LET frac == FracDigits(Abs(n) % d, d, 16)
    IN  (IF n < 0 THEN "-" ELSE "") \o ToString(Abs(n) \div d) \o "."
        \o (IF frac = "" THEN "0" ELSE frac)

\* f"{v}": an int in base 10, a list as [x, y], a float by its repr
RECURSIVE PyStr(_), JoinItems(_)
JoinItems(items) ==
    IF items = <<>> THEN ""
    ELSE IF Len(items) = 1 THEN PyStr(items[1])
    ELSE PyStr(items[1]) \o ", " \o JoinItems(Tail(items))

PyStr(v) ==
    IF v.t = "int" THEN ToString(v.n)
    ELSE IF v.t = "list" THEN "[" \o JoinItems(v.items) \o "]"
    ELSE IF v.d = 0 THEN "<" \o v.t \o ">"
    ELSE FloatRepr(v.n, v.d)

\* "\n".join(lines)
RECURSIVE JoinLines(_)
JoinLines(lines) ==
    IF lines = <<>> THEN ""
    ELSE IF Len(lines) = 1 THEN lines[1]
    ELSE lines[1] \o "\n" \o JoinLines(Tail(lines))

\* as to_toml, with the last entry of the table first
to_toml_reversed(cs) ==
    JoinLines([j \in 1..Len(cs) |->
                  lower(cs[Len(cs) + 1 - j].k) \o " = " \o PyStr(cs[Len(cs) + 1 - j].v)])

to_toml(cs) ==
    JoinLines([j \in 1..Len(cs) |-> lower(cs[j].k) \o " = " \o PyStr(cs[j].v)])

(***************************************************************************)
(* Input texts.                                                            *)
(***************************************************************************)
\* statements and a comment
Chunks ==
    { "set A=1;",
      "set A=(list 1 2);",
      "set B=^{A};",
      "set B=^{A+A};",
      "set B=^{A-B};",
      "set A=^{pow(2,-1)};",
      "set C=^{pow(A-1,-1)};",
      "set C=(list(list)^{abs(B)}3);",
      "set B=^{abs(A)+C};",
      "*$\n" }

\* statements, a comment, fragments that break a statement off, a stray character
ErrChunks ==
    { "set A=1;",
      "set A=(list 1 2);",
      "set B=^{A-B};",
      "set B=^{abs(A)};",
      "*$\n",
      "set A=",
      "set B=^{",
      "set C=1",
      "set B=(list 1",
      "set=2;",
      "$" }

\* the concatenations of at most n chunks of a pool
RECURSIVE ChunkTexts(_, _)
ChunkTexts(pool, n) ==
    IF n = 0 THEN {""}
    ELSE LET shorter == ChunkTexts(pool, n - 1)
         IN  shorter \cup {t \o c : t \in shorter, c \in pool}

LexAlphabet == {"s", "e", "t", "A", "1", "\n", "*", "$"}

\* every text of at most n characters of LexAlphabet
RECURSIVE FreeTexts(_)
FreeTexts(n) ==
    IF n = 0 THEN {""}
    ELSE LET shorter == FreeTexts(n - 1)
         IN  shorter \cup {t \o c : t \in shorter, c \in LexAlphabet}

Atoms == {"1", "2", "A", "B"}

\* the sentences of Term and of Expr that lex to exactly n tokens
RECURSIVE TermTexts(_), ExprTexts(_)
TermTexts(n) ==
    IF n < 1 THEN {}
    ELSE IF n = 1 THEN Atoms
    ELSE {"-" \o t : t \in TermTexts(n - 1)}
         \cup {"abs(" \o e \o ")" : e \in ExprTexts(n - 3)}
         \cup UNION {{"pow(" \o a \o "," \o b \o ")" :
                         a \in ExprTexts(j), b \in ExprTexts(n - 4 - j)} : j \in 1..(n - 5)}

ExprTexts(n) ==
    IF n < 1 THEN {}
    ELSE TermTexts(n)
         \cup UNION {{e \o op \o t : e \in ExprTexts(j), op \in {"+", "-"},
                         t \in TermTexts(n - 1 - j)} : j \in 1..(n - 2)}

(***************************************************************************)
(* main: the try block, its except clause and the write of the output.     *)
(***************************************************************************)
Start(t) ==
    /\ text = t
    /\ pc = "lex"
    /\ tokens = <<>>
    /\ stmts = <<>>
    /\ consts = <<>>
    /\ idx = 0
    /\ toml_text = ""
    /\ exc = NoExc
    /\ out = ""

Init == \E t \in ChunkTexts(Chunks, MaxChunks) : Start(t)

InitErr == \E t \in ChunkTexts(ErrChunks, MaxChunks) : Start(t)

InitLex == \E t \in FreeTexts(MaxTextLen) \cup Chunks : Start(t)

InitExpr ==
    \E n \in 1..MaxExprTokens : \E e \in ExprTexts(n) :
        Start("set A=3;\nset B=^{" \o e \o "};")

\* the lexer's failure is dropped and the run goes on without tokens
LexDoneSwallow(r) ==
    IF r.ok
    THEN tokens' = r.val /\ pc' = "parse" /\ exc' = exc
    ELSE tokens' = <<>> /\ pc' = "parse" /\ exc' = exc

\* tokens = lex(text)
LexDone(r) ==
    IF r.ok
    THEN tokens' = r.val /\ pc' = "parse" /\ exc' = exc
    ELSE tokens' = tokens /\ pc' = "except" /\ exc' = r.exc

Lex ==
    /\ pc = "lex"
    /\ LexDone(lex(text))
    /\ UNCHANGED <<text, stmts, consts, idx, toml_text, out>>

\* parser = Parser(tokens); stmts = parser.parse(); consts = {}
ParseDone(r) ==
    IF r.ok
    THEN stmts' = r.val /\ idx' = 1 /\ pc' = "eval" /\ exc' = exc
    ELSE stmts' = stmts /\ idx' = idx /\ pc' = "except" /\ exc' = r.exc

Parse ==
    /\ pc = "parse"
    /\ ParseDone(parse(tokens))
    /\ UNCHANGED <<text, tokens, consts, toml_text, out>>

\* one iteration of the for loop: consts[name] = eval_value(val, consts)
EvalDone(name, r) ==
    IF r.ok
    THEN consts' = DictSet(consts, name, r.val) /\ idx' = idx + 1
         /\ pc' = pc /\ exc' = exc
    ELSE consts' = consts /\ idx' = idx /\ pc' = "except" /\ exc' = r.exc

\* as EvalStmt, with the statement's own name in the table it is evaluated against
EvalStmtSelf ==
    /\ pc = "eval"
    /\ idx <= Len(stmts)
    /\ EvalDone(stmts[idx].name,
                eval_value(stmts[idx].kids[1], DictSet(consts, stmts[idx].name, IntV(0))))
    /\ UNCHANGED <<text, tokens, stmts, toml_text, out>>

EvalStmt ==
    /\ pc = "eval"
    /\ idx <= Len(stmts)
    /\ EvalDone(stmts[idx].name, eval_value(stmts[idx].kids[1], consts))
    /\ UNCHANGED <<text, tokens, stmts, toml_text, out>>

\* the loop is over: toml_text = to_toml(consts)
ToToml ==
    /\ pc = "eval"
    /\ idx > Len(stmts)
    /\ toml_text' = to_toml(consts)
    /\ pc' = "write"
    /\ UNCHANGED <<text, tokens, stmts, consts, idx, exc, out>>

\* the error line is added to the lines of the table built so far
ExceptPartial ==
    /\ pc = "except"
    /\ toml_text' = JoinLines(<<to_toml(consts), "ERROR = \"" \o exc.msg \o "\"">>)
    /\ pc' = "write"
    /\ UNCHANGED <<text, tokens, stmts, consts, idx, exc, out>>

\* except Exception as e: toml_text = f'ERROR = "{str(e)}"'
Except ==
    /\ pc = "except"
    /\ toml_text' = "ERROR = \"" \o exc.msg \o "\""
    /\ pc' = "write"
    /\ UNCHANGED <<text, tokens, stmts, consts, idx, exc, out>>

\* f.write(toml_text)
Write ==
    /\ pc = "write"
    /\ out' = toml_text
    /\ pc' = "done"
    /\ UNCHANGED <<text, tokens, stmts, consts, idx, toml_text, exc>>

Next == Lex \/ Parse \/ EvalStmt \/ ToToml \/ Except \/ Write

Spec == Init /\ [][Next]_vars

SpecErr == InitErr /\ [][Next]_vars

SpecLex == InitLex /\ [][Next]_vars

SpecExpr == InitExpr /\ [][Next]_vars

(***************************************************************************)
(* Vocabulary of the properties.                                           *)
(***************************************************************************)
IsPrefix(a, s) == Len(a) <= Len(s) /\ SubSeq(s, 1, Len(a)) = a

\* the lines of a text: its maximal pieces without a line break ("" has none)
RECURSIVE SplitLines(_, _, _)
SplitLines(s, cur, acc) ==
    IF s = "" THEN Append(acc, cur)
    ELSE IF Head(s) = "\n" THEN SplitLines(Tail(s), "", Append(acc, cur))
    ELSE SplitLines(Tail(s), cur \o Head(s), acc)

Lines(s) == IF s = "" THEN <<>> ELSE SplitLines(s, "", <<>>)

ErrorLine(msg) == "ERROR = \"" \o msg \o "\""

\* the exception of the first stage that fails on the text, recomputed from the
\* state: the lexer's, else the parser's, else that of the statement under evaluation
StageFailure ==
    LET l == lex(text)
        q == parse(l.val)
    IN  IF ~l.ok THEN l.exc
        ELSE IF ~q.ok THEN q.exc
        ELSE IF idx \in 1..Len(stmts) THEN eval_value(stmts[idx].kids[1], consts).exc
        ELSE NoExc

(***************************************************************************)
(* C1: when a stage fails, control is in the handler and stays there, the  *)
(* table holds exactly the statements before the failing one, and the text *)
(* written is the single line ERROR = "<message of that failure>", with no *)
(* name = value line of the statements evaluated before.                   *)
(***************************************************************************)
C1_ErrorOutput ==
    exc # NoExc =>
        /\ pc \in {"except", "write", "done"}
        /\ DictKeys(consts) = {stmts[j].name : j \in 1..(idx - 1)}
        /\ pc = "done" =>
              /\ exc = StageFailure
              /\ out = ErrorLine(exc.msg)
              /\ Len(Lines(out)) = 1
              /\ \A j \in 1..Len(consts) :
                     ~IsPrefix(lower(consts[j].k) \o " = ", Lines(out)[1])

\* a failure at the second or a later statement, with statements left unevaluated
C1_Witness ==
    /\ pc = "done"
    /\ exc # NoExc
    /\ Len(consts) >= 1
    /\ idx < Len(stmts)

(***************************************************************************)
(* C4: a token sequence the parser rejects yields a SyntaxError line; when *)
(* only the final semicolon is missing the line names SEMICOLON and EOF.   *)
(***************************************************************************)
C4_SyntaxErrorLine ==
    LET l == lex(text)
    IN  (pc = "done" /\ l.ok /\ ~parse(l.val).ok) =>
            /\ IsPrefix("ERROR = \"SyntaxError: ", out)
            /\ parse(Append(l.val, Token("SEMICOLON", ";"))).ok =>
                   out = ErrorLine("SyntaxError: Expected SEMICOLON, got EOF")

(***************************************************************************)
(* C10: the failure reported is the first in stage order.  A text the      *)
(* lexer rejects yields the LexError line and nothing of it is parsed or   *)
(* evaluated; a token sequence the parser rejects yields the parser's      *)
(* failure, never a SemanticError, and no statement of it is evaluated.    *)
(***************************************************************************)
C10_StageOrder ==
    pc = "done" =>
        LET l == lex(text)
            q == parse(l.val)
        IN  /\ ~l.ok =>
                  /\ out = ErrorLine(l.exc.msg)
                  /\ IsPrefix("ERROR = \"LexError: ", out)
                  /\ tokens = <<>> /\ stmts = <<>> /\ consts = <<>> /\ idx = 0
            /\ (l.ok /\ ~q.ok) =>
                  /\ out = ErrorLine(q.exc.msg)
                  /\ ~IsPrefix("ERROR = \"SemanticError: ", out)
                  /\ stmts = <<>> /\ consts = <<>> /\ idx = 0

\* the parser rejects the tokens although a prefix of them is a program whose
\* first statement refers to an undefined constant
C10_Witness ==
    /\ pc = "done"
    /\ lex(text).ok
    /\ ~parse(tokens).ok
    /\ \E n \in 1..Len(tokens) :
           /\ parse(SubSeq(tokens, 1, n)).ok
           /\ IsPrefix("SemanticError: ",
                  eval_value(parse(SubSeq(tokens, 1, n)).val[1].kids[1], <<>>).exc.msg)

(***************************************************************************)
(* The scan of a text, stated without the lexer's loops: the pattern       *)
(* accepted at p is the one of least index among those that match there.   *)
(***************************************************************************)
RefFirst(s, p) ==
    LET hits == {k \in 1..Len(TOKEN_REGEX) : ReMatch(TOKEN_REGEX[k].re, s, p) >= 0}
    IN  IF hits = {} THEN 0 ELSE CHOOSE k \in hits : \A j \in hits : k <= j

\* the positions the scan stands at, from p on: the last one is the end of the
\* text or the first position where no pattern matches
RECURSIVE RefScan(_, _)
RefScan(s, p) ==
    IF p >= Len(s) \/ RefFirst(s, p) = 0 THEN <<p>>
    ELSE <<p>> \o RefScan(s, ReMatch(TOKEN_REGEX[RefFirst(s, p)].re, s, p))

\* the tokens of the matches that start at ps[1], ..., ps[Len(ps) - 1]
RefTokens(s, ps) ==
    LET all == [j \in 1..(Len(ps) - 1) |->
                   Token(TOKEN_REGEX[RefFirst(s, ps[j])].type, SubSeq(s, ps[j] + 1, ps[j + 1]))]
        Kept(t) == t.type \notin {"WS", "COMMENT"}
    IN  SelectSeq(all, Kept)

\* the position of the first line break at or after p, the end of the text if none
RECURSIVE NextBreak(_, _)
NextBreak(s, p) ==
    IF p >= Len(s) \/ CharAt(s, p) = "\n" THEN p ELSE NextBreak(s, p + 1)

(***************************************************************************)
(* C5: the lexer scans left to right, accepts at each position the first   *)
(* pattern that matches and advances by the length of the match; white     *)
(* space and comments (an asterisk up to, not including, the next line     *)
(* break) yield no token.  If no pattern matches at a position the scan    *)
(* reaches, the run reports a LexError with the character at the first such *)
(* position and its offset, and no tokens are returned.                    *)
(***************************************************************************)
C5_LexScan ==
    pc = "done" =>
        LET ps == RefScan(text, 0)
            last == ps[Len(ps)]
        IN  /\ \A j \in 1..(Len(ps) - 1) :
                   CharAt(text, ps[j]) = "*" => ps[j + 1] = NextBreak(text, ps[j])
            /\ IF last >= Len(text)
               THEN /\ ~IsPrefix("LexError: ", exc.msg)
                    /\ tokens = RefTokens(text, ps)
               ELSE /\ exc.msg = "LexError: Unexpected character '" \o CharAt(text, last)
                                 \o "' at position " \o ToString(last)
                    /\ out = ErrorLine(exc.msg)
                    /\ tokens = <<>>

\* a stray character after a comment and its line break
C5_Witness ==
    /\ pc = "done"
    /\ CharAt(text, 0) = "*"
    /\ RefScan(text, 0) = <<0, 1, 2>>
    /\ out = ErrorLine("LexError: Unexpected character '$' at position 2")

(***************************************************************************)
(* The value of an Expr read directly off the tokens, by the rules of the  *)
(* arithmetic: integers only, with A bound to 3.  The result is not ok     *)
(* where the rules give no integer (another name, a negative exponent).    *)
(***************************************************************************)
RECURSIVE Power(_, _)
Power(a, b) == IF b = 0 THEN 1 ELSE a * Power(a, b - 1)

Undefined == Fail(NoExc)

RECURSIVE RefExpr(_, _), RefFold(_, _, _), RefTerm(_, _)
RefTerm(toks, p) ==
    CASE toks[p + 1].type = "NUMBER" -> Ok(int(toks[p + 1].value), p + 1)
      [] toks[p + 1].type = "IDENT" ->
             IF toks[p + 1].value = "A" THEN Ok(3, p + 1) ELSE Undefined
      [] toks[p + 1].type = "MINUS" ->
             Bind(RefTerm(toks, p + 1), LAMBDA x : Ok(0 - x.val, x.pos))
      [] toks[p + 1].type = "ABS" ->
             Bind(RefExpr(toks, p + 2), LAMBDA x : Ok(Abs(x.val), x.pos + 1))
      [] toks[p + 1].type = "POW" ->
             Bind(RefExpr(toks, p + 2), LAMBDA a :
             Bind(RefExpr(toks, a.pos + 1), LAMBDA b :
             IF b.val < 0 THEN Undefined ELSE Ok(Power(a.val, b.val), b.pos + 1)))
      [] OTHER -> Undefined

\* acc is the value of the terms folded so far, from the left
RefFold(toks, p, acc) ==
    CASE toks[p + 1].type = "PLUS" ->
             Bind(RefTerm(toks, p + 1), LAMBDA t : RefFold(toks, t.pos, acc + t.val))
      [] toks[p + 1].type = "MINUS" ->
             Bind(RefTerm(toks, p + 1), LAMBDA t : RefFold(toks, t.pos, acc - t.val))
      [] OTHER -> Ok(acc, p)

RefExpr(toks, p) ==
    Bind(RefTerm(toks, p), LAMBDA x : RefFold(toks, x.pos, x.val))

\* the number of tokens up to and including the first opening brace
ExprStart(toks) == CHOOSE p \in 1..Len(toks) :
                       /\ toks[p].type = "LBRACE"
                       /\ \A q \in 1..(p - 1) : toks[q].type # "LBRACE"

(***************************************************************************)
(* C8: inside ^{ }, + and - fold left to right over the terms, a unary     *)
(* minus is 0 - X, pow(a, b) is a to the power b and abs(a) the absolute   *)
(* value: after "set A=3;", the statement set B=^{e}; of an expression e   *)
(* whose value these rules define writes that value as the line of b.      *)
(***************************************************************************)
C8_Arithmetic ==
    pc = "done" =>
        LET r == RefExpr(tokens, ExprStart(tokens))
        IN  r.ok => /\ exc = NoExc
                    /\ out = "a = 3\nb = " \o ToString(r.val)

\* (3 - 2) - 2, where folding from the right would give 3
C8_Witness ==
    /\ pc = "done"
    /\ text = "set A=3;\nset B=^{A-2-2};"
    /\ out = "a = 3\nb = -1"

(***************************************************************************)
(* Statements read off the syntax tree, without evaluating them.           *)
(***************************************************************************)
\* the first name, in evaluation order (operands left to right), that a node
\* references outside of known; "" if there is none
RECURSIVE FirstUnknown(_, _), FirstUnknownIn(_, _)
FirstUnknown(node, known) ==
    IF node.kind = "var" THEN (IF node.name \in known THEN "" ELSE node.name)
    ELSE FirstUnknownIn(node.kids, known)

FirstUnknownIn(kids, known) ==
    IF kids = <<>> THEN ""
    ELSE IF FirstUnknown(Head(kids), known) # "" THEN FirstUnknown(Head(kids), known)
    ELSE FirstUnknownIn(Tail(kids), known)

\* the names declared by the statements before the k-th
Declared(k) == {stmts[j].name : j \in 1..(k - 1)}

\* the first reference of statement k to a name no earlier statement declares
Undef(k) == FirstUnknown(stmts[k].kids[1], Declared(k))

\* the first statement with such a reference, 0 if there is none
FirstBad ==
    LET bad == {k \in 1..Len(stmts) : Undef(k) # ""}
    IN  IF bad = {} THEN 0 ELSE CHOOSE k \in bad : \A j \in bad : k <= j

RECURSIVE HasKind(_, _)
HasKind(node, kinds) ==
    node.kind \in kinds \/ \E j \in 1..Len(node.kids) : HasKind(node.kids[j], kinds)

\* the first k statements hold integer literals, names, +, - and abs only
Plain(k) == \A j \in 1..k : ~HasKind(stmts[j].kids[1], {"list", "pow"})

\* the text was lexed and parsed
Parsed == idx >= 1

\* the distinct names of the first k statements, in order of first declaration
FirstNames(sts, k) ==
    LET First(j) == \A i \in 1..(j - 1) : sts[i].name # sts[j].name
    IN  SelectSeq([j \in 1..k |-> j], First)

\* the last of the first k statements that declares the name n
LastDecl(sts, k, n) ==
    CHOOSE j \in 1..k : sts[j].name = n /\ \A i \in (j + 1)..k : sts[i].name # n

\* the table after the first k statements: one entry per name, at the place of
\* its first declaration, with the value of its last declaration
RECURSIVE RefTable(_, _)
RefTable(sts, k) ==
    LET first == FirstNames(sts, k)
    IN  [m \in 1..Len(first) |->
            LET last == LastDecl(sts, k, sts[first[m]].name)
            IN  [k |-> sts[first[m]].name,
                 v |-> eval_value(sts[last].kids[1], RefTable(sts, last - 1)).val]]

C3_UnknownConstant ==
    (pc = "done" /\ Parsed) =>
        /\ DictKeys(consts) = Declared(idx)
        /\ IsPrefix("SemanticError: ", exc.msg) =>
               /\ idx = FirstBad
               /\ out = ErrorLine("SemanticError: Unknown constant " \o Undef(idx))
        /\ FirstBad # 0 =>
               /\ exc # NoExc
               /\ idx <= FirstBad
               /\ \/ IsPrefix("SemanticError: ", exc.msg)
                  \/ exc.type \in {"TypeError", "ZeroDivisionError"}
               /\ Plain(FirstBad) => IsPrefix("SemanticError: ", exc.msg)

\* the second statement references the name it declares itself
C3_Witness ==
    /\ pc = "done"
    /\ idx = 2
    /\ Len(stmts) >= 2
    /\ stmts[idx].name = "B"
    /\ Undef(idx) = "B"
    /\ Len(consts) = 1
    /\ out = ErrorLine("SemanticError: Unknown constant B")

(***************************************************************************)
(* C6: a later declaration of a name overwrites the value of its entry     *)
(* without error; the table has one entry per name, at the place of the    *)
(* name's first declaration, holding the value of its last declaration,    *)
(* the entries of other names are untouched, and the output has one line   *)
(* per entry in that order.                                                *)
(***************************************************************************)
C6_Redeclaration ==
    (Parsed /\ exc = NoExc) =>
        /\ consts = RefTable(stmts, idx - 1)
        /\ pc = "done" =>
               /\ Len(Lines(out)) = Len(consts)
               /\ \A j \in 1..Len(consts) :
                      Lines(out)[j] = lower(consts[j].k) \o " = " \o PyStr(consts[j].v)

\* A is declared again after B: its line keeps the first place, with the new value
C6_Witness ==
    /\ pc = "done"
    /\ Len(stmts) = 3
    /\ stmts[1].name = stmts[3].name
    /\ out = "a = [1, 2]\nb = 1"

\* an integer, or a sequence of such values
RECURSIVE IsIntValue(_)
IsIntValue(v) ==
    \/ v.t = "int"
    \/ v.t = "list" /\ \A j \in 1..Len(v.items) : IsIntValue(v.items[j])

(***************************************************************************)
(* C7, as stated: after any sequence of successfully evaluated statements  *)
(* every value of the table is an integer or a (nested) sequence of        *)
(* integers; pow with a negative exponent ends the run with an error.      *)
(***************************************************************************)
C7_IntegerValues == \A j \in 1..Len(consts) : IsIntValue(consts[j].v)

(***************************************************************************)
(* C9, as stated: whenever the evaluation of a ConstExpr succeeds, its     *)
(* result is a single integer, never a sequence.                           *)
(***************************************************************************)
C9_ConstExprNotList ==
    (Parsed /\ idx >= 2 /\ stmts[idx - 1].kids[1].kind = "const") =>
        DictGet(consts, stmts[idx - 1].name).t # "list"

====
